---- MODULE Spec2Model ----
(***************************************************************************)
(* auto-md: the commands `run`, `ai-doc` and `generate-doc` of cli.py with *)
(* the helpers of git_utils.py, ai_utils.py, jira_api.py and config.py.    *)
(*                                                                         *)
(* A Python str is a sequence of one-character strings.  None is the empty *)
(* set and a present value x is {x}.  One behaviour is one invocation of   *)
(* one command; every external call (HTTP, git subprocess, generator, user *)
(* prompt) is a nondeterministic choice over its outcomes.                 *)
(***************************************************************************)
EXTENDS Integers, Sequences, FiniteSets, TLC

VARIABLES
    cmd,            \* the command invoked: "run", "ai_doc" or "generate_doc"
    pc,             \* position of the command in its body
    outcome,        \* how the command ended ("" while it runs)
    config,         \* the persisted configuration file, read by load_config
    issue_key,      \* the command's argument
    issue,          \* get_issue's result (None or a payload)
    parent_issue,   \* get_parent_issue's result
    parent_info,    \* the parent text handed to the generator ("" is None)
    parent_key,     \* run's parent_key local (set by the fallback search)
    temp_dir,       \* "none", "exists" or "deleted"
    cwd,            \* the process's working directory: "CWD" or "TMP"
    remote,         \* branch names `git branch -r` lists, in listing order
    branches,       \* run's branches local
    choice,         \* the number typed at run's branch prompt (None: not asked)
    confirm,        \* the answer to run's checkout or create prompt (None: not asked)
    branch_used,    \* run's branch_used local
    chat_history,   \* the conversation: sequence of <<role, text>>
    result,         \* the MarkdownDocument of the latest generate call
    doc_file_path,  \* the path the accepted draft was written to
    fs,             \* the three candidate document files: None or bytes
    git_log,        \* the git subprocesses run so far, with their outcome
    reported,       \* the error messages printed so far
    gen_calls,      \* the arguments of every generate_task_document call
    fetches,        \* the issue requests sent to the tracker: key and success
    draft,          \* the Markdown text the latest such call returned
    rejects,        \* the feedback given with each draft rejected so far
    writes          \* what each document file write found at its path

vars == <<cmd, pc, outcome, config, issue_key, issue, parent_issue,
          parent_info, parent_key, temp_dir, cwd, remote, branches, choice,
          confirm, branch_used, chat_history, result, doc_file_path, fs, git_log,
          reported, gen_calls, draft, rejects, writes, fetches>>

----------------------------------------------------------------------------
(* Bounds of the model.                                                     *)

\* rejects a user gives before accepting (the loop itself has no cap)
MaxRejects == 2
\* remote branches in a listing handed to find_branch_for_issue on its own
MaxBranches == 2
\* lines of a Markdown text handed to the section splitting on its own
MaxLines == 3

----------------------------------------------------------------------------
(* Python str operations.                                                   *)

None == {}
Some(x) == {x}
Get(o) == CHOOSE x \in o : TRUE

LF == "\n"

\* str.lower on the characters of the model
Lower(c) ==
    CASE c = "A" -> "a"
      [] c = "B" -> "b"
      [] c = "D" -> "d"
      [] c = "Y" -> "y"
      [] OTHER -> c

LowerStr(s) == [i \in 1..Len(s) |-> Lower(s[i])]

\* k in s
Contains(s, k) ==
    \E i \in 0..(Len(s) - Len(k)) : SubSeq(s, i + 1, i + Len(k)) = k

\* s.startswith(p)
StartsWith(s, p) == Len(s) >= Len(p) /\ SubSeq(s, 1, Len(p)) = p

IsSpace(c) == c \in {" ", "\n", "\t", "\r"}

RECURSIVE LStrip(_)
LStrip(s) ==
    IF s # <<>> /\ IsSpace(Head(s)) THEN LStrip(Tail(s)) ELSE s

RECURSIVE RStrip(_)
RStrip(s) ==
    IF s # <<>> /\ IsSpace(s[Len(s)]) THEN RStrip(SubSeq(s, 1, Len(s) - 1))
    ELSE s

\* s.strip()
Strip(s) == RStrip(LStrip(s))

\* s.split(sep) for a one-character sep: always at least one piece
RECURSIVE SplitAcc(_, _, _)
SplitAcc(s, sep, cur) ==
    IF s = <<>> THEN <<cur>>
    ELSE IF Head(s) = sep THEN <<cur>> \o SplitAcc(Tail(s), sep, <<>>)
    ELSE SplitAcc(Tail(s), sep, Append(cur, Head(s)))

Split(s, sep) == SplitAcc(s, sep, <<>>)

\* sep.join(parts)
RECURSIVE Join(_, _)
Join(parts, sep) ==
    IF parts = <<>> THEN <<>>
    ELSE IF Len(parts) = 1 THEN parts[1]
    ELSE parts[1] \o <<sep>> \o Join(Tail(parts), sep)

\* s.replace(old, new): every non-overlapping occurrence, left to right
RECURSIVE Replace(_, _, _)
Replace(s, old, new) ==
    IF Len(s) < Len(old) \/ old = <<>> THEN s
    ELSE IF SubSeq(s, 1, Len(old)) = old
         THEN new \o Replace(SubSeq(s, Len(old) + 1, Len(s)), old, new)
    ELSE <<Head(s)>> \o Replace(Tail(s), old, new)

IsPrefix(s, t) == Len(s) <= Len(t) /\ SubSeq(t, 1, Len(s)) = s

Last(s) == s[Len(s)]

\* sequences over S of length at most n
SeqsUpTo(S, n) == UNION {[1..k -> S] : k \in 0..n}

----------------------------------------------------------------------------
(* git_utils.find_branch_for_issue                                          *)

\* the stdout of `git branch -r`: one line per branch, indented two spaces
BranchROutput(names) ==
    Join([i \in 1..Len(names) |-> <<" ", " ">> \o names[i]], LF)
        \o (IF names = <<>> THEN <<>> ELSE <<LF>>)

\* the comparison without the two lower() calls
BranchMatchesCaseSensitive(branch, key) == Contains(branch, key)
\* issue_key.lower() in branch.lower()
BranchMatches(branch, key) == Contains(LowerStr(branch), LowerStr(key))

\* [branch.strip() for branch in branches if issue_key.lower() in branch.lower()]
RECURSIVE StripMatching(_, _)
StripMatching(lines, key) ==
    IF lines = <<>> THEN <<>>
    ELSE IF BranchMatches(Head(lines), key)
         THEN <<Strip(Head(lines))>> \o StripMatching(Tail(lines), key)
    ELSE StripMatching(Tail(lines), key)

\* the body of find_branch_for_issue over the stdout text of the listing
MatchingBranches(stdout, key) == StripMatching(Split(Strip(stdout), LF), key)

\* find_branch_for_issue: a failing `git branch -r` yields the empty list
find_branch_for_issue(names, key, listed) ==
    IF listed THEN MatchingBranches(BranchROutput(names), key) ELSE <<>>

----------------------------------------------------------------------------
(* ai_utils.generate_task_document: the section view of the Markdown text.  *)

\* `if current_section is not None`
TruthyNotNone(o) == o # None
\* if current_section: neither None nor the empty string
Truthy(o) == o # None /\ Get(o) # <<>>

\* the content lines are joined with a blank instead of the line feed
CloseSectionBlankJoined(sections, current_section, current_content) ==
    IF Truthy(current_section)
    THEN Append(sections, [title |-> Get(current_section),
                           content |-> Join(current_content, " ")])
    ELSE sections
\* sections.append(Section(title=current_section, content='\n'.join(...)))
CloseSection(sections, current_section, current_content) ==
    IF Truthy(current_section)
    THEN Append(sections, [title |-> Get(current_section),
                           content |-> Join(current_content, LF)])
    ELSE sections

\* the for loop over the lines, then the save of the last section
RECURSIVE ScanLines(_, _, _, _)
ScanLines(lines, sections, current_section, current_content) ==
    IF lines = <<>>
    THEN CloseSection(sections, current_section, current_content)
    ELSE LET line == Head(lines) IN
         IF StartsWith(line, <<"#", " ">>)
         THEN ScanLines(Tail(lines),
                        CloseSection(sections, current_section, current_content),
                        Some(Strip(SubSeq(line, 3, Len(line)))), <<>>)
         ELSE IF StartsWith(line, <<"#", "#", " ">>)
         THEN ScanLines(Tail(lines),
                        CloseSection(sections, current_section, current_content),
                        Some(Strip(SubSeq(line, 4, Len(line)))), <<>>)
         ELSE ScanLines(Tail(lines), sections, current_section,
                        Append(current_content, line))

\* the default section's title, "任务详情" (characters named by code point)
DefaultTitle == <<"U+4EFB", "U+52A1", "U+8BE6", "U+60C5">>

\* the sections of a Markdown text, with the default section when none
ExtractSections(markdown_content) ==
    LET found == ScanLines(Split(markdown_content, LF), <<>>, None, <<>>)
    IN  IF found = <<>>
        THEN <<[title |-> DefaultTitle, content |-> markdown_content]>>
        ELSE found

\* the MarkdownDocument generate_task_document returns for a backend text
MarkdownDocument(markdown_content) ==
    LET sections == ExtractSections(markdown_content)
    IN  [title |-> sections[1].title,
         sections |-> sections,
         content |-> markdown_content]

----------------------------------------------------------------------------
(* Writing a document: open(path, "w", encoding="utf-8") and f.write.       *)

\* ord(c) for the characters of the model's documents
Ord(c) ==
    CASE c = "\n" -> 10
      [] c = " " -> 32
      [] c = "#" -> 35
      [] c = "A" -> 65
      [] c = "T" -> 84
      [] c = "o" -> 111
      [] c = "p" -> 112
      [] c = "x" -> 120
      [] c = "U+00E9" -> 233
      [] c = "U+4EFB" -> 20219
      [] c = "U+52A1" -> 21153
      [] c = "U+8BE6" -> 35814
      [] c = "U+60C5" -> 24773

DocChars == {"\n", " ", "#", "A", "T", "o", "p", "x", "U+00E9", "U+4EFB", "U+52A1", "U+8BE6", "U+60C5"}

Chr(n) == CHOOSE c \in DocChars : Ord(c) = n

\* the UTF-8 bytes of one code point
Utf8Bytes(n) ==
    IF n < 128 THEN <<n>>
    ELSE IF n < 2048 THEN <<192 + (n \div 64), 128 + (n % 64)>>
    ELSE <<224 + (n \div 4096), 128 + ((n \div 64) % 64), 128 + (n % 64)>>

\* s.encode("utf-8")
RECURSIVE Utf8Encode(_)
Utf8Encode(s) ==
    IF s = <<>> THEN <<>> ELSE Utf8Bytes(Ord(Head(s))) \o Utf8Encode(Tail(s))

\* bytes.decode("utf-8")
RECURSIVE Utf8Decode(_)
Utf8Decode(b) ==
    IF b = <<>> THEN <<>>
    ELSE IF b[1] < 128 THEN <<Chr(b[1])>> \o Utf8Decode(Tail(b))
    ELSE IF b[1] < 224
         THEN <<Chr((b[1] - 192) * 64 + (b[2] - 128))>>
              \o Utf8Decode(SubSeq(b, 3, Len(b)))
    ELSE <<Chr((b[1] - 224) * 4096 + (b[2] - 128) * 64 + (b[3] - 128))>>
         \o Utf8Decode(SubSeq(b, 4, Len(b)))

\* the file opened with mode "a": the text lands after what was there
WriteFileAppend(old, text) ==
    Some((IF old = None THEN <<>> ELSE Get(old)) \o Utf8Encode(text))
\* open(path, "w", encoding="utf-8"); f.write(text): the file is truncated and
\* holds the encoded text (os.linesep is "\n": no newline translation)
WriteFile(old, text) == Some(Utf8Encode(text))

\* open(path, encoding="utf-8", newline="").read()
ReadFile(file) == Utf8Decode(Get(file))

----------------------------------------------------------------------------
(* The inputs of a command: configuration, tracker payloads, remote         *)
(* branches, generator texts, user feedback.                                *)

Cmds == {"run", "ai_doc", "generate_doc"}

ConfigFields ==
    {"git.url", "git.username", "git.password", "jira.username", "jira.password"}

\* a configuration field is missing, the empty string, or a value; the URL
\* may also be a value that does not split in two at "://".  The
\* configurations taken have at most one field that is not a proper value.
Configs ==
    {c \in [ConfigFields -> {"Absent", "Empty", "Set", "NoScheme"}] :
        /\ \A f \in ConfigFields \ {"git.url"} : c[f] # "NoScheme"
        /\ Cardinality({f \in ConfigFields : c[f] # "Set"}) <= 1}

\* `not value` of clone_repo and get_auth_header
Blank(v) == v \in {"Absent", "Empty"}

\* config.is_initialized: all(key in git_config ...) and all(key in jira_config ...)
is_initialized(c) ==
    LET git_initialized ==
            \A key \in {"git.url", "git.username", "git.password"} : c[key] # "Absent"
        jira_initialized ==
            \A key \in {"jira.username", "jira.password"} : c[key] # "Absent"
    IN  git_initialized /\ jira_initialized

IssueKey == <<"D", "-", "2">>
ParentKey == <<"D", "-", "1">>

\* a payload field is missing ("Absent"), JSON null ("Null") or a value
IssuePayloads ==
    {[key |-> IssueKey, summary |-> f[1], description |-> f[2],
      status |-> f[3], assignee |-> f[4], parent |-> p] :
        f \in {<<"Sum", "Desc", "Open", "Ann">>,
               <<"Absent", "Absent", "Absent", "Absent">>,
               <<"Sum", "Desc", "Open", "Null">>,
               <<"Sum", "Desc", "Null", "Ann">>},
        p \in {None, Some(ParentKey)}}

ParentPayloads ==
    {[key |-> ParentKey, summary |-> f[1], description |-> f[2],
      status |-> f[3], assignee |-> f[4], parent |-> None] :
        f \in {<<"PSum", "Absent", "Open", "Bob">>,
               <<"PSum", "PDesc", "Open", "Null">>}}

\* fields.get(name, default): a JSON null is returned as None.  The defaults
\* "无标题", "无描述", "未知状态", "未分配" are written NO_TITLE, NO_DESCRIPTION,
\* UNKNOWN_STATUS, UNASSIGNED.
FieldOr(v, default) ==
    IF v = "Absent" THEN default ELSE IF v = "Null" THEN "None" ELSE v

\* fields.get(name, {}).get(sub, default) raises AttributeError on a JSON null
NestedRaises(v) == v = "Null"

\* display_issue_info raises exactly when a nested lookup does
DisplayRaises(p) == NestedRaises(p.status) \/ NestedRaises(p.assignee)

\* the issue context extracted for the generator (cli.py, "fields = ...")
IssueContext(p) ==
    [issue_key |-> IssueKey,
     summary |-> FieldOr(p.summary, "NO_TITLE"),
     description |-> FieldOr(p.description, "NO_DESCRIPTION"),
     status |-> FieldOr(p.status, "UNKNOWN_STATUS"),
     assignee |-> FieldOr(p.assignee, "UNASSIGNED")]

\* the parent_info text built from a fetched parent
ParentInfo(p) ==
    [key |-> p.key,
     summary |-> FieldOr(p.summary, "NO_TITLE"),
     description |-> FieldOr(p.description, "NO_DESCRIPTION")]

ORIGIN == <<"o", "r", "i", "g", "i", "n", "/">>

\* the remote branch listings of the cloned repository
Remotes ==
    {<<>>,
     <<ORIGIN \o <<"d", "-", "2">>, ORIGIN \o <<"D", "-", "1">>>>,
     <<ORIGIN \o <<"D", "-", "2", "a">>, ORIGIN \o <<"m">>,
       ORIGIN \o <<"f", "/", "d", "-", "2">>>>,
     <<ORIGIN \o <<"m">>, ORIGIN \o <<"D", "-", "1">>>>,
     <<ORIGIN \o <<"D", "-", "1">>, ORIGIN \o <<"d", "-", "1", "x">>>>}

\* the texts the generative backend may return
GenDocs ==
    {<<"#", " ", "T", "\n", "#", "#", " ", "A", "\n", "x">>,
     <<"U+00E9", "\n", "#", "#", " ", "\n", "U+4EFB">>}

\* a document left at the target path by an earlier run
OldDoc == <<"#", " ", "o", "\n", "o", "\n", "o", "\n", "o", "\n", "o", "\n", "o">>

\* the non-empty feedback texts click.prompt may return
Feedbacks == {<<"x">>, <<"p", "A">>}

\* the two turns appended per rejected draft: FEEDBACK_PREFIX is the literal
\* "我对生成的文档有以下修改建议：", ACKNOWLEDGMENT is "我会根据您的反馈重新生成文档。"
HumanTurn(feedback) == <<"human", <<"FEEDBACK_PREFIX">> \o feedback>>
AssistantTurn == <<"assistant", <<"ACKNOWLEDGMENT">>>>

\* the document paths of the three commands
DocFileName(key) == key \o <<".md">>
RunDocPath(key) == <<"TMP", "docs", ".tasks">> \o DocFileName(key)
AiDocPath(dir, key) == <<dir>> \o DocFileName(key)
SavePath(dir, key) == <<dir, "docs", ".tasks">> \o DocFileName(key)

Paths ==
    UNION {{AiDocPath(d, IssueKey), SavePath(d, IssueKey)} : d \in {"CWD", "TMP"}}

\* one git subprocess and whether it exited zero
GitOp(op, arg, arg2, ok) == [op |-> op, arg |-> arg, arg2 |-> arg2, ok |-> ok]

----------------------------------------------------------------------------
(* The pieces of the commands that the claims single out.                   *)

\* click.prompt(..., default="y").lower() == "y"
Answers == {<<"y">>, <<"Y">>, <<"n">>, <<"y", "e", "s">>}
\* the comparison never holds (`.lower == "y"`, the method left uncalled)
SatisfiedNever(answer) == FALSE
Satisfied(answer) == LowerStr(answer) = <<"y">>

\* `while True:` of the three generate/decide loops
\* the loop gives up after two rejected drafts
LoopCapped(n) == n < 2
LoopContinues(n) == TRUE

\* chat_history.append(("human", ...)); chat_history.append(("assistant", ...))
\* the acknowledgment turn is left out
AppendFeedbackNoAck(history, feedback) == Append(history, HumanTurn(feedback))
AppendFeedback(history, feedback) ==
    history \o <<HumanTurn(feedback), AssistantTurn>>

\* generate_task_document: the document built from the backend's text, and the
\* caller's chat_history list as the call leaves it (`chat_history or []` and
\* the chain only read it)
\* the generator appends its own answer to the caller's list
generate_task_document_appending(context, pinfo, history, text) ==
    [document |-> MarkdownDocument(text),
     chat_history |-> Append(history, <<"assistant", text>>)]
generate_task_document(context, pinfo, history, text) ==
    [document |-> MarkdownDocument(text), chat_history |-> history]

\* the arguments the commands pass to generate_task_document
GenArgs ==
    [context |-> IssueContext(Get(issue)),
     parent_info |-> parent_info,
     chat_history |-> chat_history]

\* the path each command writes the accepted draft to
TargetPath(c, dir, key) ==
    CASE c = "run" -> RunDocPath(key)
      [] c = "ai_doc" -> AiDocPath(dir, key)
      [] c = "generate_doc" -> SavePath(dir, key)

\* the sections written out again, one "## title" block each
PersistedSections(document) ==
    Join([i \in 1..Len(document.sections) |->
            <<"#", "#", " ">> \o document.sections[i].title \o <<LF>>
                \o document.sections[i].content], LF)
\* the text each command hands to f.write: result.content
PersistedText(document) == document.content

\* where a command goes after its loop
AfterLoop == IF cmd = "run" THEN "publish" ELSE "end"

\* where a command goes once the issue (and parent) are fetched
AfterFetch == IF cmd = "run" THEN "clone" ELSE "generate"

\* the parent search is made for the parent the issue names, fetched or not
AfterPrimarySearchDeclared(found, parent) ==
    IF found = <<>> /\ Get(issue).parent # None
    THEN "find_parent_branch" ELSE "resolve"
\* the parent search is made whenever a parent was fetched
AfterPrimarySearchAlways(found, parent) ==
    IF parent # None THEN "find_parent_branch" ELSE "resolve"
\* `if not branches:` ... `if parent_issue:` after the primary search
AfterPrimarySearch(found, parent) ==
    IF found = <<>> /\ parent # None THEN "find_parent_branch" ELSE "resolve"

\* the lower bound of the range check is missing
ValidChoiceNoLowerBound(branch_idx, n) == branch_idx <= n
\* `if 1 <= branch_idx <= len(branches):`
ValidChoice(branch_idx, n) == 1 <= branch_idx /\ branch_idx <= n

\* the index is counted from the end of the list
PyIndexFromEnd(seq, i) == seq[Len(seq) - i]
\* seq[i] of Python: a negative index counts from the end
PyIndex(seq, i) == IF i >= 0 THEN seq[i + 1] ELSE seq[Len(seq) + i + 1]

\* the guard on branch_used is missing: generation follows in every case
AfterResolveUnguarded(used) == "generate"
\* `if branch_used:` of run
AfterResolve(used) == IF Truthy(used) THEN "generate" ELSE "cleanup"

\* the candidate is recorded as listed
RecordedBranchRaw(branch) == branch
\* branch.replace("origin/", ""), the name run records for the push
RecordedBranch(branch) == Replace(branch, ORIGIN, <<>>)

\* checkout_branch: the git command it runs for a candidate
CheckoutOp(branch_name, ok) ==
    IF StartsWith(branch_name, ORIGIN)
    THEN GitOp("checkout -b", Replace(branch_name, ORIGIN, <<>>), branch_name, ok)
    ELSE GitOp("checkout", branch_name, <<>>, ok)

\* the answer to the creation prompt is not looked at
ConfirmedCreateAlways(create_new) == TRUE
\* `if create_new:`
ConfirmedCreate(create_new) == create_new

\* the key of the fallback search, when one was made, names the new branch
CreatedForFallback(key, fallback) ==
    IF fallback # None THEN Get(fallback) ELSE key
\* create_branch_for_issue(issue_key, base_branch): the key run passes
CreatedFor(key, fallback) == key

\* the repository's default branch taken as the base
BaseBranchMain == <<"m", "a", "i", "n">>
\* base_branch = "release"
BaseBranch == <<"r", "e", "l", "e", "a", "s", "e">>

\* create_branch_for_issue: checkout base, pull, checkout -b key; the first
\* `passed` of them exit zero and the next one, if any, fails
CreateOps(key, base_branch, passed) ==
    SubSeq(<<GitOp("checkout", base_branch, <<>>, passed >= 1),
             GitOp("pull", <<>>, <<>>, passed >= 2),
             GitOp("checkout -b", key, <<>>, passed >= 3)>>,
           1, IF passed < 3 THEN passed + 1 ELSE 3)

\* run's publish step: add, commit, push
CommitMessage(key) == <<"docs: ">> \o key
\* `git add .`: the whole working tree is staged
PublishOpsAddAll(path, key, branch, passed) ==
    SubSeq(<<GitOp("add", <<".">>, <<>>, passed >= 1),
             GitOp("commit", CommitMessage(key), <<>>, passed >= 2),
             GitOp("push", branch, <<>>, passed >= 3)>>,
           1, IF passed < 3 THEN passed + 1 ELSE 3)
\* the three commands run with check=False: a failure stops nothing
PublishOpsUnchecked(path, key, branch, passed) ==
    <<GitOp("add", Tail(path), <<>>, passed >= 1),
      GitOp("commit", CommitMessage(key), <<>>, passed >= 2),
      GitOp("push", branch, <<>>, passed >= 3)>>
PublishOps(path, key, branch, passed) ==
    SubSeq(<<GitOp("add", Tail(path), <<>>, passed >= 1),
             GitOp("commit", CommitMessage(key), <<>>, passed >= 2),
             GitOp("push", branch, <<>>, passed >= 3)>>,
           1, IF passed < 3 THEN passed + 1 ELSE 3)

\* clone_repo's two clone forms: the second runs only when the first failed
CloneOps(first_ok, second_ok) ==
    IF first_ok THEN <<GitOp("clone", <<"auth_url">>, <<>>, TRUE)>>
    ELSE <<GitOp("clone", <<"auth_url">>, <<>>, FALSE),
           GitOp("clone", <<"credential_params">>, <<>>, second_ok)>>

\* shutil.rmtree(temp_dir): the files under the directory go with it
RemoveTree(files) ==
    [p \in Paths |-> IF Head(p) = "TMP" THEN None ELSE files[p]]

----------------------------------------------------------------------------
(* The state of a command before its first statement.                       *)

\* the target path of ai-doc or generate-doc may hold an earlier document
InitFiles(c) ==
    {f \in [Paths -> {None, Some(Utf8Encode(OldDoc))}] :
        \A p \in Paths : f[p] # None => c # "run" /\ p = TargetPath(c, "CWD", IssueKey)}

Locals ==
    /\ pc = "start"
    /\ outcome = ""
    /\ issue = None
    /\ parent_issue = None
    /\ parent_info = None
    /\ parent_key = None
    /\ temp_dir = "none"
    /\ cwd = "CWD"
    /\ branches = <<>>
    /\ choice = None
    /\ confirm = None
    /\ branch_used = None
    /\ chat_history = <<>>
    /\ result = None
    /\ doc_file_path = None
    /\ git_log = <<>>
    /\ reported = {}
    /\ gen_calls = <<>>
    /\ draft = None
    /\ fetches = <<>>
    /\ rejects = <<>>
    /\ writes = <<>>

Init ==
    /\ cmd \in Cmds
    /\ config \in Configs
    /\ issue_key = IssueKey
    /\ remote = <<>>
    /\ fs \in InitFiles(cmd)
    /\ Locals

\* an uncaught exception ends the command where it is raised
Raise(what) ==
    /\ pc' = "end"
    /\ outcome' = "Crashed"
    /\ reported' = reported \cup {what}

\* the check of get_issue's result is missing: the command goes on
AfterGetIssueUnchecked(r) ==
    IF r # None /\ Get(r).parent # None THEN "fetch_parent" ELSE AfterFetch
\* `if not issue: ... return`, then `if "parent" in issue["fields"]:`
AfterGetIssue(r) ==
    IF r = None THEN "end"
    ELSE IF Get(r).parent # None THEN "fetch_parent" ELSE AfterFetch

\* a parent that cannot be fetched ends the command like a missing issue
AfterGetParentRequired(r) == IF r = None THEN "end" ELSE AfterFetch
\* `if parent_issue:` only guards the display: the command goes on either way
AfterGetParent(r) == AfterFetch

----------------------------------------------------------------------------
(* Steps shared by run, ai-doc and generate-doc.                            *)

\* `if not is_initialized(): ... return`
CheckInitialized ==
    /\ pc = "start"
    /\ IF is_initialized(config)
       THEN /\ pc' = "fetch_issue"
            /\ UNCHANGED <<outcome, reported>>
       ELSE /\ pc' = "end"
            /\ outcome' = "NotInitialized"
            /\ reported' = reported \cup {"not initialized"}
    /\ UNCHANGED <<cmd, confirm, fetches, choice, draft, config, issue_key, issue, parent_issue, parent_info,
                   parent_key, temp_dir, cwd, remote, branches, branch_used,
                   chat_history, result, doc_file_path, fs, git_log,
                   gen_calls, rejects, writes>>

\* get_issue(issue_key), `if not issue: return`, display_issue_info(issue)
FetchIssue ==
    /\ pc = "fetch_issue"
    /\ IF Blank(config["jira.username"]) \/ Blank(config["jira.password"])
       THEN /\ Raise("ValueError: jira credentials")
            /\ UNCHANGED <<issue, fetches>>
       ELSE \E r \in {None} \cup {Some(p) : p \in IssuePayloads} :
            /\ issue' = r
            /\ fetches' = Append(fetches, [key |-> issue_key, ok |-> r # None])
            /\ IF r = None
               THEN /\ pc' = AfterGetIssue(r)
                    /\ outcome' = "IssueNotFound"
                    /\ reported' = reported \cup {"get_issue failed", "issue not found"}
               ELSE IF DisplayRaises(Get(r))
               THEN Raise("AttributeError: display_issue_info")
               ELSE /\ pc' = AfterGetIssue(r)
                    /\ UNCHANGED <<outcome, reported>>
    /\ UNCHANGED <<cmd, confirm, choice, draft, config, issue_key, parent_issue, parent_info,
                   parent_key, temp_dir, cwd, remote, branches, branch_used,
                   chat_history, result, doc_file_path, fs, git_log,
                   gen_calls, rejects, writes>>

\* get_parent_issue(issue), display_issue_info(parent_issue), parent_info
FetchParent ==
    /\ pc = "fetch_parent"
    /\ \E r \in {None} \cup {Some(p) : p \in ParentPayloads} :
        /\ parent_issue' = r
        /\ fetches' = Append(fetches, [key |-> Get(Get(issue).parent),
                                       ok |-> r # None])
        /\ IF r = None
           THEN /\ pc' = AfterGetParent(r)
                /\ reported' = reported \cup {"get_issue failed"}
                /\ UNCHANGED <<outcome, parent_info>>
           ELSE IF DisplayRaises(Get(r))
           THEN /\ Raise("AttributeError: display_issue_info")
                /\ UNCHANGED parent_info
           ELSE /\ pc' = AfterGetParent(r)
                /\ parent_info' = Some(ParentInfo(Get(r)))
                /\ UNCHANGED <<outcome, reported>>
    /\ UNCHANGED <<cmd, confirm, choice, draft, config, issue_key, issue, parent_key, temp_dir, cwd,
                   remote, branches, branch_used, chat_history, result,
                   doc_file_path, fs, git_log, gen_calls, rejects, writes>>

\* one pass of `while True:` up to the prompt: generate_task_document(...)
GenerateFrom(docs) ==
    /\ pc = "generate"
    /\ gen_calls' = Append(gen_calls, GenArgs)
    /\ \E ok \in BOOLEAN, text \in docs :
        LET r == generate_task_document(GenArgs.context, parent_info,
                                        chat_history, text)
        IN  /\ chat_history' = r.chat_history
            /\ IF ok
               THEN /\ result' = Some(r.document)
                    /\ draft' = Some(text)
                    /\ pc' = "await_user"
                    /\ UNCHANGED <<outcome, reported>>
               ELSE /\ Raise("generation failed")
                    /\ UNCHANGED <<result, draft>>
    /\ UNCHANGED <<cmd, confirm, fetches, choice, config, issue_key, issue, parent_issue, parent_info,
                   parent_key, temp_dir, cwd, remote, branches, branch_used,
                   doc_file_path, fs, git_log, rejects, writes>>

\* the pass with the texts the backend returns in a command's run
Generate == GenerateFrom(GenDocs)

\* `if satisfied:` write the file and break
Accept ==
    /\ pc = "await_user"
    /\ \E answer \in Answers : Satisfied(answer)
    /\ LET path == TargetPath(cmd, cwd, issue_key)
       IN  /\ fs' = [fs EXCEPT ![path] = WriteFile(fs[path], PersistedText(Get(result)))]
           /\ doc_file_path' = Some(path)
    /\ writes' = Append(writes, fs[TargetPath(cmd, cwd, issue_key)])
    /\ pc' = AfterLoop
    /\ outcome' = IF cmd = "run" THEN outcome ELSE "Done"
    /\ UNCHANGED <<cmd, confirm, fetches, choice, draft, config, issue_key, issue, parent_issue, parent_info,
                   parent_key, temp_dir, cwd, remote, branches, branch_used,
                   chat_history, result, git_log, reported, gen_calls, rejects>>

\* `else:` prompt for the feedback, append the two turns, loop
Reject ==
    /\ pc = "await_user"
    /\ Len(rejects) < MaxRejects
    /\ \E answer \in Answers : ~Satisfied(answer)
    /\ \E feedback \in Feedbacks :
        /\ chat_history' = AppendFeedback(chat_history, feedback)
        /\ rejects' = Append(rejects, feedback)
    /\ pc' = IF LoopContinues(Len(rejects')) THEN "generate" ELSE AfterLoop
    /\ outcome' = IF LoopContinues(Len(rejects')) \/ cmd = "run"
                  THEN outcome ELSE "Done"
    /\ UNCHANGED <<cmd, confirm, fetches, choice, draft, config, issue_key, issue, parent_issue, parent_info,
                   parent_key, temp_dir, cwd, remote, branches, branch_used,
                   result, doc_file_path, fs, git_log, reported, gen_calls,
                   writes>>

----------------------------------------------------------------------------
(* Steps of run only.                                                       *)

\* what checking a branch out may leave at the document's path
WorkingTrees ==
    {[fs EXCEPT ![RunDocPath(issue_key)] = old] :
        old \in {None, Some(Utf8Encode(OldDoc))}}

\* cleanup_temp_dir: rmtree, a failure is caught and printed
CleanupTempDir(deleted) ==
    IF deleted
    THEN /\ temp_dir' = "deleted"
         /\ fs' = RemoveTree(fs)
    ELSE /\ temp_dir' = "exists"
         /\ UNCHANGED fs

\* create_temp_dir(), clone_repo(temp_dir), `if not clone_success: ... return`
CloneRepo ==
    /\ pc = "clone"
    /\ IF \E f \in {"git.url", "git.username", "git.password"} : Blank(config[f])
       THEN /\ Raise("ValueError: git configuration")
            /\ temp_dir' = "exists"
            /\ UNCHANGED <<git_log, remote, fs>>
       ELSE IF config["git.url"] = "NoScheme"
       THEN /\ \E deleted \in BOOLEAN :
                /\ CleanupTempDir(deleted)
                /\ reported' = reported \cup {"bad repository url", "clone failed"}
                                \cup (IF deleted THEN {} ELSE {"cleanup failed"})
            /\ pc' = "end"
            /\ outcome' = "CloneFailed"
            /\ UNCHANGED <<git_log, remote>>
       ELSE \E first_ok, second_ok \in BOOLEAN :
            /\ git_log' = git_log \o CloneOps(first_ok, second_ok)
            /\ IF first_ok \/ second_ok
               THEN /\ temp_dir' = "exists"
                    /\ remote' \in Remotes
                    /\ pc' = "find_branch"
                    /\ UNCHANGED <<outcome, reported, fs>>
               ELSE /\ \E deleted \in BOOLEAN :
                        /\ CleanupTempDir(deleted)
                        /\ reported' = reported \cup {"git clone failed", "clone failed"}
                                        \cup (IF deleted THEN {} ELSE {"cleanup failed"})
                    /\ pc' = "end"
                    /\ outcome' = "CloneFailed"
                    /\ UNCHANGED remote
    /\ UNCHANGED <<cmd, confirm, fetches, choice, draft, config, issue_key, issue, parent_issue, parent_info,
                   parent_key, cwd, branches, branch_used, chat_history,
                   result, doc_file_path, gen_calls, rejects, writes>>

\* branches = find_branch_for_issue(temp_dir, issue_key)
SearchPrimary ==
    /\ pc = "find_branch"
    /\ cwd' = "TMP"
    /\ \E listed \in BOOLEAN :
        /\ branches' = find_branch_for_issue(remote, issue_key, listed)
        /\ git_log' = Append(git_log, GitOp("branch -r", issue_key, <<>>, listed))
        /\ reported' = reported \cup (IF listed THEN {} ELSE {"branch listing failed"})
    /\ pc' = AfterPrimarySearch(branches', parent_issue)
    /\ UNCHANGED <<cmd, confirm, fetches, choice, draft, outcome, config, issue_key, issue, parent_issue,
                   parent_info, parent_key, temp_dir, remote, branch_used,
                   chat_history, result, doc_file_path, fs, gen_calls,
                   rejects, writes>>

\* `if parent_issue:` branches = find_branch_for_issue(temp_dir, parent_key)
SearchFallback ==
    /\ pc = "find_parent_branch"
    /\ parent_key' = Some(Get(parent_issue).key)
    /\ \E listed \in BOOLEAN :
        /\ branches' = find_branch_for_issue(remote, Get(parent_key'), listed)
        /\ git_log' = Append(git_log, GitOp("branch -r", Get(parent_key'), <<>>, listed))
        /\ reported' = reported \cup (IF listed THEN {} ELSE {"branch listing failed"})
    /\ pc' = "resolve"
    /\ UNCHANGED <<cmd, confirm, fetches, choice, draft, outcome, config, issue_key, issue, parent_issue,
                   parent_info, temp_dir, cwd, remote, branch_used,
                   chat_history, result, doc_file_path, fs, gen_calls,
                   rejects, writes>>

\* a failed checkout is tried a second time before it is given up
TryCheckoutTwice(branch, ok) ==
    /\ git_log' = IF ok THEN Append(git_log, CheckoutOp(branch, TRUE))
                  ELSE git_log \o <<CheckoutOp(branch, FALSE), CheckoutOp(branch, FALSE)>>
    /\ IF ok
       THEN /\ branch_used' = Some(RecordedBranch(branch))
            /\ fs' \in WorkingTrees
            /\ UNCHANGED reported
       ELSE /\ reported' = reported \cup {"checkout failed"}
            /\ UNCHANGED <<branch_used, fs>>
\* the effect of checkout_branch(branch) on run's state
TryCheckout(branch, ok) ==
    /\ git_log' = Append(git_log, CheckoutOp(branch, ok))
    /\ IF ok
       THEN /\ branch_used' = Some(RecordedBranch(branch))
            /\ fs' \in WorkingTrees
            /\ UNCHANGED reported
       ELSE /\ reported' = reported \cup {"checkout failed"}
            /\ UNCHANGED <<branch_used, fs>>

\* `if len(branches) == 1:` confirm, then checkout_branch(branches[0])
CheckoutSingle ==
    /\ pc = "resolve"
    /\ Len(branches) = 1
    /\ \E confirmed \in BOOLEAN :
        /\ confirm' = Some(confirmed)
        /\ IF confirmed
           THEN \E ok \in BOOLEAN : TryCheckout(branches[1], ok)
           ELSE UNCHANGED <<git_log, branch_used, fs, reported>>
    /\ pc' = AfterResolve(branch_used')
    /\ UNCHANGED <<cmd, fetches, choice, draft, outcome, config, issue_key, issue, parent_issue,
                   parent_info, parent_key, temp_dir, cwd, remote, branches,
                   chat_history, result, doc_file_path, gen_calls, rejects,
                   writes>>

\* the numbers click.prompt(type=int) may return for n candidates
Choices(n) == -1..(n + 1)

\* `else:` prompt for a number, `if 1 <= branch_idx <= len(branches):`
ChooseAmong ==
    /\ pc = "resolve"
    /\ Len(branches) > 1
    /\ \E branch_idx \in Choices(Len(branches)) :
        /\ choice' = Some(branch_idx)
        /\ IF ValidChoice(branch_idx, Len(branches))
           THEN \E ok \in BOOLEAN :
                    TryCheckout(PyIndex(branches, branch_idx - 1), ok)
           ELSE /\ reported' = reported \cup {"invalid branch number"}
                /\ UNCHANGED <<git_log, branch_used, fs>>
    /\ pc' = AfterResolve(branch_used')
    /\ UNCHANGED <<cmd, confirm, fetches, draft, outcome, config, issue_key, issue, parent_issue,
                   parent_info, parent_key, temp_dir, cwd, remote, branches,
                   chat_history, result, doc_file_path, gen_calls, rejects,
                   writes>>

\* `else:` confirm, then create_branch_for_issue(issue_key, "release")
CreateNew ==
    /\ pc = "resolve"
    /\ branches = <<>>
    /\ \E create_new \in BOOLEAN :
        /\ confirm' = Some(create_new)
        /\ IF ConfirmedCreate(create_new)
           THEN \E passed \in 0..3 :
                /\ git_log' = git_log \o CreateOps(CreatedFor(issue_key, parent_key),
                                                   BaseBranch, passed)
                /\ IF passed = 3
                   THEN /\ branch_used' = Some(CreatedFor(issue_key, parent_key))
                        /\ fs' \in WorkingTrees
                        /\ UNCHANGED reported
                   ELSE /\ reported' = reported \cup {"create branch failed"}
                        /\ UNCHANGED <<branch_used, fs>>
           ELSE UNCHANGED <<git_log, branch_used, fs, reported>>
    /\ pc' = AfterResolve(branch_used')
    /\ UNCHANGED <<cmd, fetches, choice, draft, outcome, config, issue_key, issue, parent_issue,
                   parent_info, parent_key, temp_dir, cwd, remote, branches,
                   chat_history, result, doc_file_path, gen_calls, rejects,
                   writes>>

\* `if doc_file_path and click.confirm(...)`: git add, commit, push
Publish ==
    /\ pc = "publish"
    /\ \E confirmed \in BOOLEAN :
        IF doc_file_path # None /\ confirmed
        THEN \E passed \in 0..3 :
             /\ git_log' = git_log \o PublishOps(Get(doc_file_path), issue_key,
                                                 Get(branch_used), passed)
             /\ reported' = reported \cup
                    (IF passed = 3 THEN {} ELSE {"commit or push failed"})
        ELSE UNCHANGED <<git_log, reported>>
    /\ pc' = "cleanup"
    /\ UNCHANGED <<cmd, confirm, fetches, choice, draft, outcome, config, issue_key, issue, parent_issue,
                   parent_info, parent_key, temp_dir, cwd, remote, branches,
                   branch_used, chat_history, result, doc_file_path, fs,
                   gen_calls, rejects, writes>>

\* `if click.confirm("是否清理临时目录？")`: cleanup_temp_dir(temp_dir)
Cleanup ==
    /\ pc = "cleanup"
    /\ \E confirmed, deleted \in BOOLEAN :
        IF confirmed
        THEN /\ CleanupTempDir(deleted)
             /\ reported' = reported \cup (IF deleted THEN {} ELSE {"cleanup failed"})
        ELSE UNCHANGED <<temp_dir, fs, reported>>
    /\ pc' = "end"
    /\ outcome' = IF doc_file_path # None THEN "Done" ELSE "BranchUnresolved"
    /\ UNCHANGED <<cmd, confirm, fetches, choice, draft, config, issue_key, issue, parent_issue, parent_info,
                   parent_key, cwd, remote, branches, branch_used,
                   chat_history, result, doc_file_path, git_log, gen_calls,
                   rejects, writes>>

----------------------------------------------------------------------------
(* One invocation of a command.                                             *)

Next ==
    \/ CheckInitialized
    \/ FetchIssue
    \/ FetchParent
    \/ CloneRepo
    \/ SearchPrimary
    \/ SearchFallback
    \/ CheckoutSingle
    \/ ChooseAmong
    \/ CreateNew
    \/ Generate
    \/ Accept
    \/ Reject
    \/ Publish
    \/ Cleanup

Spec == Init /\ [][Next]_vars

\* every call and prompt returns: a command that can take a step takes one
LiveSpec == Init /\ [][Next]_vars /\ WF_vars(Next)

----------------------------------------------------------------------------
(* The generate/decide loop.                                                *)

InLoop == pc \in {"generate", "await_user"}

\* The conversation handed to the i-th generate call: two turns per earlier
\* reject, a human turn containing that reject's feedback and then the
\* assistant's acknowledgment, on top of what the call before it was handed.
C1_CallConversation(i) ==
    LET h == gen_calls[i].chat_history
    IN  /\ Len(h) = 2 * (i - 1)
        /\ i - 1 <= Len(rejects)
        /\ \A k \in 1..(i - 1) :
            /\ h[2 * k - 1][1] = "human"
            /\ Contains(h[2 * k - 1][2], rejects[k])
            /\ h[2 * k] = <<"assistant", <<"ACKNOWLEDGMENT">>>>
        /\ i > 1 => IsPrefix(gen_calls[i - 1].chat_history, h)

\* C1: in run, ai-doc and generate-doc, every generate call is handed a
\* conversation of length 2 x (drafts rejected so far), made of the earlier
\* conversation plus (human, text containing the feedback), (assistant,
\* acknowledgment) per reject, and the conversation only ever grows at its end.
C1_ConversationGrowsByTwoPerReject ==
    /\ [](/\ \A i \in 1..Len(gen_calls) : C1_CallConversation(i)
          /\ pc = "generate" => Len(gen_calls) = Len(rejects)
          /\ pc = "await_user" => Len(gen_calls) = Len(rejects) + 1
          /\ Len(chat_history) = 2 * Len(rejects))
    /\ [][IsPrefix(chat_history, chat_history')]_vars

C1_Witness ==
    /\ Len(gen_calls) = 3
    /\ rejects[1] # rejects[2]
    /\ pc = "await_user"

\* C2: only a reject changes the conversation: a generate call leaves the
\* conversation and the issue context as they were passed in, an accept leaves
\* the conversation alone, and a run whose first draft is accepted ends with
\* an empty conversation.
C2_OnlyRejectChangesConversation ==
    /\ [][/\ chat_history' # chat_history =>
                pc = "await_user" /\ Len(rejects') = Len(rejects) + 1
          /\ Len(gen_calls') > Len(gen_calls) =>
                /\ chat_history' = Last(gen_calls').chat_history
                /\ issue' = issue
                /\ parent_info' = Last(gen_calls').parent_info
                /\ IssueContext(Get(issue')) = Last(gen_calls').context
          /\ writes' # writes => chat_history' = chat_history]_vars
    /\ [](pc = "end" /\ rejects = <<>> => chat_history = <<>>)

C2_Witness ==
    /\ pc = "end"
    /\ Len(writes) = 1
    /\ Len(gen_calls) = 1
    /\ chat_history = <<>>

\* C3: the loop has no iteration cap: after n rejects n + 1 generate calls have
\* been made, nothing is persisted and the command is still in the loop; a
\* reject always leads to another generate call, and the file is written only
\* from the user-decision step on an accept.
C3_LoopLeftOnlyByAccept ==
    /\ [](InLoop =>
            /\ writes = <<>>
            /\ Len(gen_calls) = Len(rejects) + (IF pc = "await_user" THEN 1 ELSE 0))
    /\ [][/\ rejects' # rejects => pc' = "generate" /\ writes' = <<>>
          /\ writes' # writes =>
                /\ pc = "await_user"
                /\ rejects' = rejects
                /\ pc' = (IF cmd = "run" THEN "publish" ELSE "end")
          /\ (InLoop /\ ~InLoop' /\ outcome' # "Crashed") => writes' # writes]_vars

C3_Witness ==
    /\ pc = "await_user"
    /\ Len(rejects) = MaxRejects
    /\ Len(gen_calls) = MaxRejects + 1
    /\ writes = <<>>

\* C4: when the user's decisions end with an accept and every external call
\* returns, every run reaches a terminal state.
C4_RunTerminates == <>(pc = "end" /\ outcome # "")

C4_Witness ==
    /\ pc = "end"
    /\ outcome = "Done"
    /\ Len(rejects) = MaxRejects

----------------------------------------------------------------------------
(* Branch resolution of run.                                                *)

RECURSIVE SelectOps(_, _)
SelectOps(log, ops) ==
    IF log = <<>> THEN <<>>
    ELSE IF Head(log).op \in ops THEN <<Head(log)>> \o SelectOps(Tail(log), ops)
    ELSE SelectOps(Tail(log), ops)

\* the branch searches, the checkout/create commands and the publish commands
Searches == SelectOps(git_log, {"branch -r"})
ResolveOps == SelectOps(git_log, {"checkout", "checkout -b", "pull"})
PublishedOps == SelectOps(git_log, {"add", "commit", "push"})

\* what the primary and the fallback search returned
PrimaryResult == find_branch_for_issue(remote, issue_key, Searches[1].ok)
FallbackResult == find_branch_for_issue(remote, Searches[2].arg, Searches[2].ok)

\* C5: when the primary search yields exactly one candidate, no fallback
\* search is made, whether or not a parent was fetched, nothing is created,
\* and the only branch command run is the checkout of that candidate.
C5_SingleMatchIsCheckedOut ==
    (Searches # <<>> /\ Len(PrimaryResult) = 1) =>
        /\ Len(Searches) = 1
        /\ parent_key = None
        /\ pc # "find_parent_branch"
        /\ branches = PrimaryResult
        /\ choice = None
        /\ ResolveOps \in {<<>>} \cup {<<CheckoutOp(PrimaryResult[1], ok)>> : ok \in BOOLEAN}
        /\ branch_used \in {None, Some(RecordedBranch(PrimaryResult[1]))}

C5_Witness ==
    /\ Searches # <<>>
    /\ Len(PrimaryResult) = 1
    /\ parent_issue # None
    /\ Contains(LowerStr(Last(remote)), LowerStr(Get(parent_issue).key))
    /\ branch_used # None
    /\ pc = "generate"

\* the commands of a branch creation from "release" of which `passed` succeed
C6_CreateFromRelease(passed) ==
    SubSeq(<<[op |-> "checkout", arg |-> <<"r", "e", "l", "e", "a", "s", "e">>,
              arg2 |-> <<>>, ok |-> passed >= 1],
             [op |-> "pull", arg |-> <<>>, arg2 |-> <<>>, ok |-> passed >= 2],
             [op |-> "checkout -b", arg |-> issue_key, arg2 |-> <<>>,
              ok |-> passed >= 3]>>,
           1, IF passed < 3 THEN passed + 1 ELSE 3)

\* the primary search found nothing and there is no fetched parent, or the
\* fallback search found nothing either
C6_NothingFound ==
    /\ Searches # <<>>
    /\ PrimaryResult = <<>>
    /\ parent_issue = None \/ (Len(Searches) = 2 /\ FallbackResult = <<>>)

\* C6: with nothing found by the primary search and no fallback key, or
\* nothing found by the fallback search either, the decision is CreateNew from
\* "release"; the fallback search is made only after an empty primary search,
\* and a run makes at most two searches, the primary and one fallback.
C6_NoMatchIsCreateNew ==
    /\ Len(Searches) <= 2
    /\ Searches # <<>> => Searches[1].arg = issue_key
    /\ Len(Searches) = 2 =>
            /\ PrimaryResult = <<>>
            /\ parent_issue # None
            /\ Searches[2].arg = Get(parent_issue).key
    /\ C6_NothingFound =>
            /\ branches = <<>>
            /\ choice = None
            /\ pc \in {"resolve", "generate", "await_user", "publish", "cleanup", "end"}
            /\ ResolveOps \in {<<>>} \cup {C6_CreateFromRelease(k) : k \in 0..3}
            /\ branch_used \in {None, Some(issue_key)}

C6_Witness ==
    /\ C6_NothingFound
    /\ Len(Searches) = 2
    /\ remote # <<>>
    /\ branch_used = Some(issue_key)
    /\ ResolveOps = C6_CreateFromRelease(3)

\* C8: with more than one candidate and a number outside 1..n typed, the run
\* reports the invalid number, attempts no checkout, creates no branch and
\* generates, persists and publishes nothing.
C8_InvalidChoiceStopsRun ==
    (choice # None /\ ~(1 <= Get(choice) /\ Get(choice) <= Len(branches))) =>
        /\ Len(branches) > 1
        /\ "invalid branch number" \in reported
        /\ ResolveOps = <<>>
        /\ branch_used = None
        /\ gen_calls = <<>>
        /\ draft = None
        /\ writes = <<>>
        /\ doc_file_path = None
        /\ PublishedOps = <<>>
        /\ pc \in {"cleanup", "end"}

C8_Witness ==
    /\ choice = Some(0)
    /\ Len(branches) = 2
    /\ pc = "end"

----------------------------------------------------------------------------
(* find_branch_for_issue on its own: any listing, any key.                  *)

\* branch names and search keys: mixed case, the key inside or at an end
FindNames ==
    {<<"a">>, <<"A", "b">>, <<"b">>, <<"b", "a", "B">>, <<"B", "/", "a", "b">>}
FindKeys == {<<"a">>, <<"A", "B">>, <<"a", "b">>, <<"B", "/">>}

\* run at "find_branch" with a cloned repository of any listing
InitFind ==
    /\ cmd = "run"
    /\ config = [f \in ConfigFields |-> "Set"]
    /\ issue_key \in FindKeys
    /\ remote \in SeqsUpTo(FindNames, MaxBranches)
    /\ fs = [p \in Paths |-> None]
    /\ pc = "find_branch"
    /\ outcome = ""
    /\ issue = Some([key |-> issue_key, summary |-> "Sum", description |-> "Desc",
                     status |-> "Open", assignee |-> "Ann", parent |-> None])
    /\ parent_issue = None
    /\ parent_info = None
    /\ parent_key = None
    /\ temp_dir = "exists"
    /\ cwd = "CWD"
    /\ branches = <<>>
    /\ choice = None
    /\ confirm = None
    /\ branch_used = None
    /\ chat_history = <<>>
    /\ result = None
    /\ doc_file_path = None
    /\ git_log = <<GitOp("clone", <<"auth_url">>, <<>>, TRUE)>>
    /\ reported = {}
    /\ gen_calls = <<>>
    /\ draft = None
    /\ fetches = <<[key |-> issue_key, ok |-> TRUE]>>
    /\ rejects = <<>>
    /\ writes = <<>>

FindSpec == InitFind /\ [][SearchPrimary]_vars

\* the key occurs in the name when case is ignored
C7_Occurs(name, key) ==
    \E at \in 0..(Len(name) - Len(key)) :
        \A j \in 1..Len(key) : Lower(name[at + j]) = Lower(key[j])

\* the positions of the listing whose name matches, and the k-th of them
C7_Positions == {i \in 1..Len(remote) : C7_Occurs(remote[i], issue_key)}
C7_Kth(k) ==
    CHOOSE i \in C7_Positions : Cardinality({j \in C7_Positions : j < i}) = k - 1

\* C7: find_branch_for_issue returns exactly the listed names that contain the
\* key ignoring case, in listing order.
C7_FindReturnsMatchesInOrder ==
    (Searches # <<>> /\ Searches[1].ok) =>
        /\ Len(branches) = Cardinality(C7_Positions)
        /\ \A k \in 1..Len(branches) : branches[k] = remote[C7_Kth(k)]

C7_Witness ==
    /\ Searches # <<>>
    /\ Searches[1].ok
    /\ Len(remote) = 2
    /\ branches = <<remote[2]>>
    /\ ~Contains(remote[2], issue_key)

----------------------------------------------------------------------------
(* Persisting the accepted draft.                                           *)

\* the path named for each command: {key}.md in the working directory for
\* ai-doc, docs/.tasks/{key}.md for generate-doc and, in the clone, for run
C9_Target ==
    CASE cmd = "ai_doc" -> <<"CWD">> \o issue_key \o <<".md">>
      [] cmd = "generate_doc" -> <<"CWD", "docs", ".tasks">> \o issue_key \o <<".md">>
      [] cmd = "run" -> <<"TMP", "docs", ".tasks">> \o issue_key \o <<".md">>

\* C9: the one file write of a run puts exactly the raw Markdown text of the
\* most recent generate call, not a rendering of its sections, at {key}.md in
\* the working directory (ai-doc) or at docs/.tasks/{key}.md (generate-doc;
\* inside the working copy for run), and touches no other file.
C9_PersistsLatestDraftOnce ==
    /\ [](/\ Len(writes) <= 1
          /\ doc_file_path # None =>
                Len(writes) = 1 /\ doc_file_path = Some(C9_Target))
    /\ [][writes' # writes =>
            /\ draft # None
            /\ draft' = draft
            /\ doc_file_path' = Some(C9_Target)
            /\ \A p \in Paths :
                fs'[p] = IF p = C9_Target THEN Some(Utf8Encode(Get(draft)))
                         ELSE fs[p]]_vars

C9_Witness ==
    /\ cmd = "run"
    /\ Len(rejects) >= 1
    /\ Len(gen_calls) = Len(rejects) + 1
    /\ Len(writes) = 1
    /\ pc = "publish"
    /\ Len(Get(result).sections) = 2
    /\ fs[C9_Target] = Some(Utf8Encode(Get(draft)))

\* C10: whatever the target path held before, absent or an earlier document,
\* the file read back after the write is exactly the draft's raw Markdown.
C10_PersistThenReadIsIdentity ==
    [][writes' # writes =>
        LET p == Get(doc_file_path')
        IN  /\ Last(writes') = fs[p]
            /\ fs'[p] # None
            /\ ReadFile(fs'[p]) = Get(draft)]_vars

C10_Witness ==
    /\ Len(writes) = 1
    /\ writes[1] = Some(Utf8Encode(OldDoc))
    /\ doc_file_path # None
    /\ fs[Get(doc_file_path)] # None
    /\ ReadFile(fs[Get(doc_file_path)]) = Get(draft)
    /\ \E i \in 1..Len(Get(draft)) : Get(draft)[i] = "U+4EFB"

----------------------------------------------------------------------------
(* Publishing the persisted document.                                       *)

\* C11: the publish commands of run are stage, commit, push in that order; a
\* command is attempted only if the ones before it succeeded, a failure is
\* reported, and the publish step leaves the written file and the commands
\* already run as they are.
C11_PublishStopsAtFirstFailure ==
    /\ [](/\ Len(PublishedOps) <= 3
          /\ \A i \in 1..Len(PublishedOps) :
                /\ PublishedOps[i].op = <<"add", "commit", "push">>[i]
                /\ i < Len(PublishedOps) => PublishedOps[i].ok
          /\ (PublishedOps # <<>> /\ ~Last(PublishedOps).ok) =>
                "commit or push failed" \in reported
          /\ PublishedOps # <<>> => Len(writes) = 1)
    /\ [][pc = "publish" =>
            /\ IsPrefix(git_log, git_log')
            /\ fs' = fs
            /\ doc_file_path' = doc_file_path
            /\ writes' = writes]_vars

C11_Witness ==
    /\ Len(PublishedOps) = 2
    /\ PublishedOps[1].ok
    /\ ~PublishedOps[2].ok
    /\ pc = "cleanup"
    /\ fs[Get(doc_file_path)] = Some(Utf8Encode(Get(draft)))

----------------------------------------------------------------------------
(* Fetching the issue and its parent.                                       *)

\* C12: when the request for the primary issue fails, the command ends as
\* failed: no parent request, no working copy, no git command, no generate
\* call and no file write follow.
C12_IssueFetchFailureEndsCommand ==
    (fetches # <<>> /\ ~fetches[1].ok) =>
        /\ fetches = <<[key |-> issue_key, ok |-> FALSE]>>
        /\ pc = "end"
        /\ outcome = "IssueNotFound"
        /\ "issue not found" \in reported
        /\ issue = None
        /\ parent_issue = None
        /\ temp_dir = "none"
        /\ git_log = <<>>
        /\ gen_calls = <<>>
        /\ writes = <<>>
        /\ doc_file_path = None

C12_Witness ==
    /\ cmd = "run"
    /\ fetches = <<[key |-> issue_key, ok |-> FALSE]>>
    /\ pc = "end"

\* C13: the parent is requested only for an issue that names one, and a
\* failed parent request leaves the command running with no parent and no
\* parent text: no search with the parent's key, every generate call made
\* with the empty parent text.
C13_ParentFetchFailureIsNotFatal ==
    /\ [](/\ Len(fetches) <= 2
          /\ Len(fetches) = 2 =>
                /\ fetches[1].ok
                /\ issue # None
                /\ Get(issue).parent # None
                /\ fetches[2].key = Get(Get(issue).parent)
          /\ (Len(fetches) = 2 /\ ~fetches[2].ok) =>
                /\ parent_issue = None
                /\ parent_info = None
                /\ parent_key = None
                /\ Len(Searches) <= 1
                /\ \A i \in 1..Len(gen_calls) : gen_calls[i].parent_info = None
                /\ outcome # "IssueNotFound")
    /\ [][(Len(fetches) = 1 /\ Len(fetches') = 2 /\ ~fetches'[2].ok) =>
            /\ pc' = IF cmd = "run" THEN "clone" ELSE "generate"
            /\ outcome' = ""]_vars

C13_Witness ==
    /\ cmd = "run"
    /\ Len(fetches) = 2
    /\ ~fetches[2].ok
    /\ remote # <<>>
    /\ Contains(LowerStr(Last(remote)), LowerStr(fetches[2].key))
    /\ branch_used = Some(issue_key)
    /\ Len(writes) = 1
    /\ outcome = "Done"

----------------------------------------------------------------------------
(* Failures of the external commands.                                       *)

\* C14: a failed listing of the remote branches is reported and ends branch
\* resolution: no further search, no checkout and no branch creation follow
\* it, and no branch is recorded for the run.
C14_ListingFailureAbortsResolution ==
    \A i \in 1..Len(Searches) :
        ~Searches[i].ok =>
            /\ "branch listing failed" \in reported
            /\ Len(Searches) = i
            /\ ResolveOps = <<>>
            /\ branch_used = None

\* C15: a run that created a working copy has, when it ends, attempted to
\* delete it: the directory is gone or the failed deletion was reported.
C15_WorkingCopyRemovalAttempted ==
    (cmd = "run" /\ pc = "end" /\ temp_dir # "none") =>
        (temp_dir = "deleted" \/ "cleanup failed" \in reported)

\* the clone commands run so far
CloneAttempts == SelectOps(git_log, {"clone"})

\* C16: clone_repo reports failure only after both clone forms were tried,
\* the URL with embedded credentials first and the plain URL with credential
\* parameters second; the second form is tried only after the first failed.
C16_CloneFailsOnlyAfterBothForms ==
    /\ outcome = "CloneFailed" =>
            CloneAttempts = <<GitOp("clone", <<"auth_url">>, <<>>, FALSE),
                              GitOp("clone", <<"credential_params">>, <<>>, FALSE)>>
    /\ CloneAttempts # <<>> => CloneAttempts[1].arg = <<"auth_url">>
    /\ Len(CloneAttempts) > 1 =>
            /\ Len(CloneAttempts) = 2
            /\ ~CloneAttempts[1].ok
            /\ CloneAttempts[2].arg = <<"credential_params">>

----------------------------------------------------------------------------
(* The configuration check.                                                 *)

\* all five fields are present and not the empty string
C17_AllFieldsSet == \A f \in ConfigFields : ~Blank(config[f])

\* C17: is_initialized answers true exactly for a configuration whose five
\* fields are all present and non-empty: a command gets past the check only
\* with such a configuration, and is turned away only without one.
C17_InitializedIffAllFieldsSet ==
    pc # "start" => (outcome # "NotInitialized" <=> C17_AllFieldsSet)

\* C18: a command started without a complete configuration sends no tracker
\* request, creates no working copy, runs no git command, makes no generate
\* call and writes no file; and no command fails for a missing credential
\* after it passed the check.
C18_UninitializedCommandDoesNothing ==
    /\ (\E f \in ConfigFields : Blank(config[f])) =>
            /\ fetches = <<>>
            /\ temp_dir = "none"
            /\ git_log = <<>>
            /\ gen_calls = <<>>
            /\ writes = <<>>
    /\ "ValueError: jira credentials" \notin reported
    /\ "ValueError: git configuration" \notin reported

----------------------------------------------------------------------------
(* The issue context.                                                       *)

\* the value of an optional field, or its default when the field is absent
\* or carries no value
C19_OrDefault(v, default) == IF v \in {"Absent", "Null"} THEN default ELSE v

\* C19: whatever optional fields a fetched issue lacks, displaying it and
\* extracting its context never fails, and every generate call is handed the
\* context with the default in place of each missing field.
C19_MissingFieldsGetDefaults ==
    /\ "AttributeError: display_issue_info" \notin reported
    /\ \A i \in 1..Len(gen_calls) :
        gen_calls[i].context =
            [issue_key |-> issue_key,
             summary |-> C19_OrDefault(Get(issue).summary, "NO_TITLE"),
             description |-> C19_OrDefault(Get(issue).description, "NO_DESCRIPTION"),
             status |-> C19_OrDefault(Get(issue).status, "UNKNOWN_STATUS"),
             assignee |-> C19_OrDefault(Get(issue).assignee, "UNASSIGNED")]

----------------------------------------------------------------------------
(* The branch run creates.                                                  *)

\* the positions in the git log of a branch creation (`git checkout -b name`
\* with no start point)
C20_Creations ==
    {i \in 1..Len(git_log) :
        git_log[i].op = "checkout -b" /\ git_log[i].arg2 = <<>>}

\* C20: a branch run creates is named by the primary issue key alone, also
\* after a fallback search with the parent's key, it is created on top of
\* "release", and that name is the one recorded and pushed.
C20_CreatedBranchIsIssueKey ==
    /\ \A i \in C20_Creations :
        /\ git_log[i].arg = issue_key
        /\ i > 2
        /\ git_log[i - 2].op = "checkout"
        /\ git_log[i - 2].arg = <<"r", "e", "l", "e", "a", "s", "e">>
        /\ git_log[i - 1].op = "pull"
        /\ git_log[i].ok => branch_used = Some(issue_key)
        /\ git_log[i].ok =>
                \A j \in 1..Len(PublishedOps) :
                    PublishedOps[j].op = "push" => PublishedOps[j].arg = issue_key
    /\ Cardinality(C20_Creations) <= 1

C20_Witness ==
    /\ C20_Creations # {}
    /\ parent_key # None
    /\ Len(Searches) = 2
    /\ branch_used = Some(issue_key)
    /\ Len(PublishedOps) = 3
    /\ PublishedOps[3].arg = issue_key

----------------------------------------------------------------------------
(* The prompts of branch resolution.                                        *)

\* the commands of create_branch_for_issue in the git log
C21_CreateCommands ==
    {i \in 1..Len(git_log) :
        \/ git_log[i].op = "pull"
        \/ git_log[i].op = "checkout" /\ git_log[i].arg = BaseBranch
        \/ git_log[i].op = "checkout -b" /\ git_log[i].arg2 = <<>>}

\* C21: run performs a branch creation only when no candidate was found and
\* the user answered yes to the creation prompt; after a no, branch
\* resolution has run no git command that changes the repository.
C21_CreationNeedsConfirmation ==
    /\ C21_CreateCommands # {} =>
            /\ branches = <<>>
            /\ choice = None
            /\ confirm = Some(TRUE)
    /\ (branches = <<>> /\ confirm = Some(FALSE)) =>
            /\ ResolveOps = <<>>
            /\ branch_used = None
            /\ pc \in {"cleanup", "end"}

C21_Witness ==
    /\ branches = <<>>
    /\ confirm = Some(FALSE)
    /\ Searches # <<>>
    /\ pc = "end"

\* C22: a run attempts the checkout of at most one candidate, once; a failed
\* checkout is reported and followed by no other checkout and no branch
\* creation.
C22_CheckoutFailureNotRetried ==
    /\ branches # <<>> => Len(ResolveOps) <= 1
    /\ (branches # <<>> /\ ResolveOps # <<>> /\ ~ResolveOps[1].ok) =>
            /\ "checkout failed" \in reported
            /\ C21_CreateCommands = {}
            /\ branch_used = None
            /\ pc \in {"cleanup", "end"}
    /\ "checkout failed" \in reported =>
            /\ Len(ResolveOps) = 1
            /\ ~ResolveOps[1].ok

C22_Witness ==
    /\ Len(branches) > 1
    /\ Len(ResolveOps) = 1
    /\ ~ResolveOps[1].ok
    /\ pc = "end"

----------------------------------------------------------------------------
(* What run publishes.                                                      *)

\* C23: run reaches its publish step only with the accepted draft written
\* inside the clone on a branch that was checked out or created; git add is
\* given exactly the written path, relative to the clone, and git push the
\* name of the local branch that checkout or creation left.
C23_PublishesPersistedPathToRunBranch ==
    (pc = "publish" \/ PublishedOps # <<>>) =>
        /\ Len(writes) = 1
        /\ doc_file_path = Some(<<"TMP", "docs", ".tasks">> \o issue_key \o <<".md">>)
        /\ branch_used # None
        /\ ResolveOps # <<>>
        /\ Last(ResolveOps).ok
        /\ Last(ResolveOps).op \in {"checkout", "checkout -b"}
        /\ \A i \in 1..Len(PublishedOps) :
            /\ PublishedOps[i].op = "add" =>
                    PublishedOps[i].arg = <<"docs", ".tasks">> \o issue_key \o <<".md">>
            /\ PublishedOps[i].op = "push" =>
                    PublishedOps[i].arg = Last(ResolveOps).arg

C23_Witness ==
    /\ Len(PublishedOps) = 3
    /\ PublishedOps[3].ok
    /\ Len(branches) > 1
    /\ PublishedOps[3].arg = <<"f", "/", "d", "-", "2">>

----------------------------------------------------------------------------
(* The section view of generate_task_document on its own: any text.         *)

\* the lines of the texts: headings of both levels, one with blanks around
\* its text and one with no text, a body line, an empty line, and a line
\* with "#" but no blank after it
SectionLines ==
    {<<"#", " ", "T">>, <<"#", "#", " ", " ", "A", " ">>, <<"#", "#", " ">>,
     <<"x">>, <<>>, <<"#", "T">>}

SectionDocs == {Join(ls, LF) : ls \in SeqsUpTo(SectionLines, MaxLines)}

\* generate-doc about to call generate_task_document for the first time
InitSections ==
    /\ cmd = "generate_doc"
    /\ config = [f \in ConfigFields |-> "Set"]
    /\ issue_key = IssueKey
    /\ remote = <<>>
    /\ fs = [p \in Paths |-> None]
    /\ pc = "generate"
    /\ outcome = ""
    /\ issue = Some([key |-> IssueKey, summary |-> "Sum", description |-> "Desc",
                     status |-> "Open", assignee |-> "Ann", parent |-> None])
    /\ parent_issue = None
    /\ parent_info = None
    /\ parent_key = None
    /\ temp_dir = "none"
    /\ cwd = "CWD"
    /\ branches = <<>>
    /\ choice = None
    /\ confirm = None
    /\ branch_used = None
    /\ chat_history = <<>>
    /\ result = None
    /\ doc_file_path = None
    /\ git_log = <<>>
    /\ reported = {}
    /\ gen_calls = <<>>
    /\ draft = None
    /\ fetches = <<[key |-> IssueKey, ok |-> TRUE]>>
    /\ rejects = <<>>
    /\ writes = <<>>

SectionSpec == InitSections /\ [][GenerateFrom(SectionDocs)]_vars

\* the lines of the latest draft, the heading lines among them and the
\* heading lines that have a text
DraftLines == Split(Get(draft), LF)
IsHeading(line) ==
    StartsWith(line, <<"#", " ">>) \/ StartsWith(line, <<"#", "#", " ">>)
HeadingText(line) ==
    Strip(SubSeq(line, IF StartsWith(line, <<"#", " ">>) THEN 3 ELSE 4, Len(line)))
Headings == {i \in 1..Len(DraftLines) : IsHeading(DraftLines[i])}
NamedHeadings == {i \in Headings : HeadingText(DraftLines[i]) # <<>>}

\* the k-th smallest member of a set of positions
KthOf(S, k) == CHOOSE i \in S : Cardinality({j \in S : j < i}) = k - 1

\* the lines after heading i up to the next heading line, as one text
BodyOf(i) ==
    LET later == {j \in Headings : j > i}
        stop == IF later = {} THEN Len(DraftLines) + 1 ELSE KthOf(later, 1)
    IN  Join(SubSeq(DraftLines, i + 1, stop - 1), LF)

\* one section per heading of S, in document order, or the default section
\* holding the whole text when S is empty
SectionsFor(S) ==
    IF S = {}
    THEN <<[title |-> <<"U+4EFB", "U+52A1", "U+8BE6", "U+60C5">>,
            content |-> Get(draft)]>>
    ELSE [k \in 1..Cardinality(S) |->
            [title |-> HeadingText(DraftLines[KthOf(S, k)]),
             content |-> BodyOf(KthOf(S, k))]]

\* C24 as stated: every line starting with "# " or "## " opens a section
\* titled by its text and holding the lines up to the next heading, sections
\* are in document order, the document title is the first section's title,
\* and a text with no such line gives the one default section.
C24_EveryHeadingOpensSection ==
    result # None =>
        /\ Get(result).sections = SectionsFor(Headings)
        /\ Get(result).title = Get(result).sections[1].title

\* C24 (amended): the same with the headings that have a text after
\* trimming: a heading with no text opens no section, and a text with no
\* heading that has a text gives the one default section.
C24_NamedHeadingOpensSection ==
    result # None =>
        /\ Get(result).sections = SectionsFor(NamedHeadings)
        /\ Get(result).title = Get(result).sections[1].title
        /\ Get(result).content = Get(draft)

C24_Witness ==
    /\ result # None
    /\ Cardinality(Headings) = 3
    /\ Len(Get(result).sections) = 2
    /\ Get(result).sections[1].title = <<"T">>
    /\ Get(result).sections[2].title = <<"A">>

\* the titles of the section view, in order
SectionTitles == [k \in 1..Len(Get(result).sections) |-> Get(result).sections[k].title]

\* the texts of the headings that have one, in document order
NamedHeadingTexts ==
    [k \in 1..Cardinality(NamedHeadings) |->
        HeadingText(DraftLines[KthOf(NamedHeadings, k)])]

\* the lines the section view holds: those that follow a heading with a text
\* before any other heading
LinesInSections ==
    {j \in 1..Len(DraftLines) \ Headings :
        \E i \in NamedHeadings :
            i < j /\ ~\E h \in Headings : i < h /\ h < j}

\* the lines of section k of the view, by position in the draft
LinesOfSection(k) ==
    {j \in LinesInSections :
        KthOf(NamedHeadings, k) < j
        /\ ~\E h \in Headings : KthOf(NamedHeadings, k) < h /\ h < j}

\* the content of section k is its lines, joined
ContentIsLines(k) ==
    LET own == LinesOfSection(k)
    IN  Get(result).sections[k].content =
            Join([n \in 1..Cardinality(own) |-> DraftLines[KthOf(own, n)]], LF)

\* C29 as stated: the section titles are exactly the texts of the headings
\* that have one, in order; lines before the first heading and lines after a
\* heading with no text are in no section; the raw content is the draft.
C29_TitlesAreHeadingTexts ==
    result # None =>
        /\ SectionTitles = NamedHeadingTexts
        /\ \A k \in 1..Len(Get(result).sections) : ContentIsLines(k)
        /\ Get(result).content = Get(draft)

\* C29 (amended): the same whenever some heading has a text; when none has,
\* the view is the one default section and holds the whole text, the lines
\* before the first heading and after a heading with no text included.
C29_TitlesAreHeadingTextsOrDefault ==
    result # None =>
        /\ NamedHeadings # {} =>
                /\ SectionTitles = NamedHeadingTexts
                /\ \A k \in 1..Len(Get(result).sections) : ContentIsLines(k)
        /\ NamedHeadings = {} =>
                /\ SectionTitles = <<DefaultTitle>>
                /\ Get(result).sections[1].content = Get(draft)
        /\ Get(result).content = Get(draft)

C29_Witness ==
    /\ result # None
    /\ DraftLines = <<<<"#", " ", "T">>, <<"#", "#", " ">>, <<"x">>>>
    /\ Get(result).sections = <<[title |-> <<"T">>, content |-> <<>>]>>

----------------------------------------------------------------------------
(* Choosing among several candidates.                                       *)

\* the positions in the listing of the names matching the key last searched
C25_Listed ==
    {i \in 1..Len(remote) :
        Contains(LowerStr(remote[i]), LowerStr(Last(Searches).arg))}

\* C25: with n > 1 candidates and a choice k in 1..n, the one checkout run
\* attempts is that of the k-th matching name of the listing, which is the
\* candidate shown with number k.
C25_ChoiceSelectsKthCandidate ==
    (choice # None /\ 1 <= Get(choice) /\ Get(choice) <= Len(branches)) =>
        /\ Len(branches) > 1
        /\ Len(branches) = Cardinality(C25_Listed)
        /\ branches[Get(choice)] = remote[KthOf(C25_Listed, Get(choice))]
        /\ ResolveOps \in
            {<<CheckoutOp(remote[KthOf(C25_Listed, Get(choice))], ok)>> : ok \in BOOLEAN}
        /\ branch_used \in
            {None, Some(RecordedBranch(remote[KthOf(C25_Listed, Get(choice))]))}

C25_Witness ==
    /\ choice = Some(2)
    /\ Len(remote) = 3
    /\ ResolveOps = <<CheckoutOp(remote[3], TRUE)>>
    /\ pc = "generate"

----------------------------------------------------------------------------
(* Generation only on a resolved branch.                                    *)

\* branch resolution ended without a branch: the prompt was declined, the
\* number was invalid, or the checkout or the creation failed
C26_Unresolved ==
    \/ confirm = Some(FALSE)
    \/ "invalid branch number" \in reported
    \/ "checkout failed" \in reported
    \/ "create branch failed" \in reported

\* C26: run calls the generator, writes and publishes only after a checkout
\* or a creation succeeded; whenever branch resolution ends without a branch
\* the next step is the cleanup prompt, with no generate call and no write.
C26_GenerationNeedsBranch ==
    /\ [](cmd = "run" =>
            /\ (gen_calls # <<>> \/ writes # <<>> \/ PublishedOps # <<>>) =>
                    /\ ResolveOps # <<>>
                    /\ Last(ResolveOps).ok
                    /\ Last(ResolveOps).op \in {"checkout", "checkout -b"}
                    /\ branch_used # None
                    /\ ~C26_Unresolved
            /\ C26_Unresolved =>
                    /\ pc \in {"cleanup", "end"}
                    /\ branch_used = None
                    /\ gen_calls = <<>>
                    /\ writes = <<>>
                    /\ PublishedOps = <<>>)
    /\ [][(pc = "resolve" /\ branch_used' = None) => pc' = "cleanup"]_vars

C26_Witness ==
    /\ Len(branches) = 1
    /\ confirm = Some(FALSE)
    /\ gen_calls = <<>>
    /\ pc = "end"

----------------------------------------------------------------------------
(* The fallback search and the parent fetch.                                *)

\* the issue names a parent and the request for it failed
C27_ParentFetchFailed == Len(fetches) = 2 /\ ~fetches[2].ok

\* C27: a second search is made only with the key of a parent that was
\* fetched; when the parent request failed, an empty primary search leads to
\* the creation prompt with no search for the parent's key.
C27_FallbackNeedsFetchedParent ==
    /\ (Len(Searches) = 2 \/ pc = "find_parent_branch") =>
            /\ Len(fetches) = 2
            /\ fetches[2].ok
            /\ parent_issue # None
    /\ Len(Searches) = 2 => Searches[2].arg = fetches[2].key
    /\ (C27_ParentFetchFailed /\ Searches # <<>> /\ PrimaryResult = <<>>) =>
            /\ Len(Searches) = 1
            /\ Searches[1].arg = issue_key
            /\ branches = <<>>
            /\ choice = None
            /\ pc = "resolve" <=> confirm = None
            /\ ResolveOps # <<>> => confirm = Some(TRUE)

C27_Witness ==
    /\ C27_ParentFetchFailed
    /\ Len(Searches) = 1
    /\ remote # <<>>
    /\ Contains(LowerStr(Last(remote)), LowerStr(fetches[2].key))
    /\ confirm = Some(TRUE)
    /\ branch_used = Some(issue_key)
    /\ pc = "generate"

----------------------------------------------------------------------------
(* The recorded branch and the branch checkout_branch leaves.               *)

\* the checkout of a candidate succeeded
C28_CandidateCheckedOut ==
    /\ branches # <<>>
    /\ ResolveOps # <<>>
    /\ Last(ResolveOps).ok

\* C28: after the successful checkout of a candidate, the name run records
\* and later pushes is the name of the local branch the checkout command of
\* checkout_branch left checked out.
C28_RecordedIsCheckedOut ==
    C28_CandidateCheckedOut =>
        /\ \E i \in 1..Len(branches) :
                Last(ResolveOps) = CheckoutOp(branches[i], TRUE)
        /\ branch_used = Some(Last(ResolveOps).arg)
        /\ \A i \in 1..Len(PublishedOps) :
                PublishedOps[i].op = "push" =>
                        PublishedOps[i].arg = Last(ResolveOps).arg

C28_Witness ==
    /\ Len(branches) = 1
    /\ confirm = Some(TRUE)
    /\ C28_CandidateCheckedOut
    /\ Last(ResolveOps).op = "checkout -b"
    /\ StartsWith(branches[1], ORIGIN)
    /\ branch_used = Some(SubSeq(branches[1], Len(ORIGIN) + 1, Len(branches[1])))
    /\ Len(PublishedOps) = 3
    /\ PublishedOps[3].ok

====
